---- MODULE Spec2Model ----
(***************************************************************************)
(* Observer pattern of DesignPatterns/BehavioralPatterns/observer.py:      *)
(* a ConcretePublisher with its list of subscribers and its new-products   *)
(* count, the two concrete subscribers, and the client script.             *)
(*                                                                         *)
(* The program is single-threaded and every call is synchronous, so one    *)
(* step of the model is one call made by the client, with everything the   *)
(* call does (its prints, the notify pass, the update calls).              *)
(***************************************************************************)
EXTENDS Integers, Sequences, FiniteSets, TLC

VARIABLES
    _subscribers,   \* ConcretePublisher._subscribers: the list of subscribers
    _new_products,  \* ConcretePublisher._new_products
    stdout,         \* the lines printed so far, in order
    history,        \* one record per call the client made, in order
    pc              \* where the client is

vars == <<_subscribers, _new_products, stdout, history, pc>>

\* ---------------------------------------------------------------- bounds

\* Calls a client makes on the publisher.
MaxOps == 5

\* business_logic calls among them (each draws one of ten values).
MaxDraws == 1

\* ------------------------------------------------------- program constants

\* randrange(0, 10): the draw is in RandLow .. RandHigh - 1.
RandLow == 0

RandHigh == 10

\* SubscriberA acts when the count is greater than this.
ThresholdA == 0

\* SubscriberB acts when the count is greater than this.
ThresholdB == 2

\* The subscriber objects of the script and the class of each.
Subscribers == {"sub_a", "sub_b"}

\* Subscriber is an interface: a client may register objects of classes of its
\* own. Two such objects, whose update calls back into the publisher it is given:
\*   sub_once     update calls publisher.remove_subscriber(self)
\*   sub_inviter  update calls publisher.add_subscriber(sub_b)
OtherSubscribers == {"sub_once", "sub_inviter"}

ClassOf(s) ==
    CASE s = "sub_a" -> "SubscriberA"
      [] s = "sub_b" -> "SubscriberB"
      [] s = "sub_once" -> "OneShot"
      [] s = "sub_inviter" -> "Inviter"

\* Variant: the upper end is included (as randint does).
randrange_inclusive == RandLow .. RandHigh

\* The values randrange(0, 10) can return.
randrange == RandLow .. (RandHigh - 1)

\* ------------------------------------------------------------- list methods

\* list.index(x): the position of the first entry equal to x, 0 when there is none.
RECURSIVE list_index_from(_, _, _)
list_index_from(l, x, i) ==
    IF i > Len(l) THEN 0
    ELSE IF l[i] = x THEN i
    ELSE list_index_from(l, x, i + 1)

\* Variant: the search starts at the second entry.
list_index_skips_first(l, x) == list_index_from(l, x, 2)

list_index(l, x) == list_index_from(l, x, 1)

\* Variant: every entry equal to x is removed.
list_remove_every(l, x) == SelectSeq(l, LAMBDA y : y # x)

\* Variant: the last entry equal to x is removed.
list_remove_last_equal(l, x) ==
    LET k == CHOOSE j \in 1..Len(l) : l[j] = x /\ \A m \in (j + 1)..Len(l) : l[m] # x
    IN  SubSeq(l, 1, k - 1) \o SubSeq(l, k + 1, Len(l))

\* Variant: the last entry is removed, whatever x is (list.pop()).
list_remove_pops(l, x) == SubSeq(l, 1, Len(l) - 1)

\* list.remove(x) on a list that holds x: the list without its first entry equal to x.
list_remove(l, x) ==
    LET k == list_index(l, x)
    IN  SubSeq(l, 1, k - 1) \o SubSeq(l, k + 1, Len(l))

\* ------------------------------------------------------------ the calls
\* A call works on a frame st:
\*   subs, count   the publisher's _subscribers and _new_products
\*   out           the lines printed
\*   updates       the update calls made during the call, in order, each with the
\*                 receiver, the count it read and whether it acted
\*   passes        the notify passes made during the call
\*   exc           the exception the call ended with, "" when it returned

Frame(subs, count, out) ==
    [subs |-> subs, count |-> count, out |-> out,
     updates |-> <<>>, passes |-> 0, exc |-> ""]

print(st, line) == [st EXCEPT !.out = Append(@, line)]

\* Variant: a subscriber that is already in the list is not added again.
add_subscriber_unique(st, s) ==
    LET s1 == print(st, "Publisher: Adding subscriber !")
    IN  IF list_index(s1.subs, s) = 0 THEN [s1 EXCEPT !.subs = Append(@, s)] ELSE s1

\* ConcretePublisher.add_subscriber
add_subscriber(st, s) ==
    LET s1 == print(st, "Publisher: Adding subscriber !")
    IN  [s1 EXCEPT !.subs = Append(@, s)]

\* Variant: the line is printed after the removal, so not when it fails.
remove_subscriber_prints_after(st, s) ==
    IF list_index(st.subs, s) = 0
    THEN [st EXCEPT !.exc = "ValueError"]
    ELSE print([st EXCEPT !.subs = list_remove(@, s)], "Publisher: Removing subscriber !")

\* Variant: an absent subscriber is ignored (no exception).
remove_subscriber_discard(st, s) ==
    LET s1 == print(st, "Publisher: Removing subscriber !")
    IN  IF list_index(s1.subs, s) = 0
        THEN s1
        ELSE [s1 EXCEPT !.subs = list_remove(@, s)]

\* ConcretePublisher.remove_subscriber: list.remove raises ValueError when s is absent
remove_subscriber(st, s) ==
    LET s1 == print(st, "Publisher: Removing subscriber !")
    IN  IF list_index(s1.subs, s) = 0
        THEN [s1 EXCEPT !.exc = "ValueError"]
        ELSE [s1 EXCEPT !.subs = list_remove(@, s)]

\* Variant: SubscriberA, having acted, resets the publisher's count.
SubscriberA_update_consumes(st) ==
    LET acts == st.count > ThresholdA
        s1 == IF acts THEN print(st, "SubscriberA: Action Taken") ELSE st
        s2 == [s1 EXCEPT !.count = 0]
    IN  [s2 EXCEPT !.updates =
            Append(@, [sub |-> "sub_a", seen |-> st.count, fired |-> acts])]

\* Variant: SubscriberA compares with >= in place of >.
SubscriberA_update_ge(st) ==
    LET acts == st.count >= ThresholdA
        s1 == IF acts THEN print(st, "SubscriberA: Action Taken") ELSE st
    IN  [s1 EXCEPT !.updates =
            Append(@, [sub |-> "sub_a", seen |-> st.count, fired |-> acts])]

\* Variant: SubscriberA compares with < in place of >.
SubscriberA_update_lt(st) ==
    LET acts == st.count < ThresholdA
        s1 == IF acts THEN print(st, "SubscriberA: Action Taken") ELSE st
    IN  [s1 EXCEPT !.updates =
            Append(@, [sub |-> "sub_a", seen |-> st.count, fired |-> acts])]

\* SubscriberA.update
SubscriberA_update(st) ==
    LET acts == st.count > ThresholdA
        s1 == IF acts THEN print(st, "SubscriberA: Action Taken") ELSE st
    IN  [s1 EXCEPT !.updates =
            Append(@, [sub |-> "sub_a", seen |-> st.count, fired |-> acts])]

\* Variant: SubscriberB compares with SubscriberA's threshold.
SubscriberB_update_as_A(st) ==
    LET acts == st.count > ThresholdA
        s1 == IF acts THEN print(st, "SubscriberA: Action Taken") ELSE st
    IN  [s1 EXCEPT !.updates =
            Append(@, [sub |-> "sub_b", seen |-> st.count, fired |-> acts])]

\* SubscriberB.update (it prints SubscriberA's text)
SubscriberB_update(st) ==
    LET acts == st.count > ThresholdB
        s1 == IF acts THEN print(st, "SubscriberA: Action Taken") ELSE st
    IN  [s1 EXCEPT !.updates =
            Append(@, [sub |-> "sub_b", seen |-> st.count, fired |-> acts])]

\* A Subscriber.update that unsubscribes its object: publisher.remove_subscriber(self)
OneShot_update(st) ==
    LET s1 == [st EXCEPT !.updates =
                 Append(@, [sub |-> "sub_once", seen |-> st.count, fired |-> FALSE])]
    IN  remove_subscriber(s1, "sub_once")

\* A Subscriber.update that subscribes another object: publisher.add_subscriber(sub_b)
Inviter_update(st) ==
    LET s1 == [st EXCEPT !.updates =
                 Append(@, [sub |-> "sub_inviter", seen |-> st.count, fired |-> FALSE])]
    IN  add_subscriber(s1, "sub_b")

\* subscriber.update(self): dispatch on the receiver's class
update(s, st) ==
    CASE ClassOf(s) = "SubscriberA" -> SubscriberA_update(st)
      [] ClassOf(s) = "SubscriberB" -> SubscriberB_update(st)
      [] ClassOf(s) = "OneShot" -> OneShot_update(st)
      [] ClassOf(s) = "Inviter" -> Inviter_update(st)

\* for subscriber in self._subscribers: subscriber.update(self)
\* The list iterator holds an index and reads the list at each step.
RECURSIVE notify_from(_, _)
notify_from(i, st) ==
    IF i > Len(st.subs) THEN st
    ELSE notify_from(i + 1, update(st.subs[i], st))

\* Variant: the pass goes through the list from its end.
RECURSIVE notify_down_from(_, _)
notify_down_from(i, st) ==
    IF i < 1 THEN st
    ELSE notify_down_from(i - 1, update(st.subs[i], st))

notify_newest_first(st) == notify_down_from(Len(st.subs), [st EXCEPT !.passes = @ + 1])

\* ConcretePublisher.notify
notify(st) == notify_from(1, [st EXCEPT !.passes = @ + 1])

\* Variant: the new count is announced after the subscribers were notified.
business_logic_announces_last(st, r) ==
    LET s1 == print(st, "\nPublisher: Checking Inventory for new products!")
        s2 == notify([s1 EXCEPT !.count = r])
    IN  print(s2, "Publisher: My new products count has just changed to: "
                  \o ToString(s2.count))

\* Variant: the subscribers are notified only when the count changed.
business_logic_if_changed(st, r) ==
    LET s1 == print(st, "\nPublisher: Checking Inventory for new products!")
        s2 == [s1 EXCEPT !.count = r]
        s3 == print(s2, "Publisher: My new products count has just changed to: "
                        \o ToString(s2.count))
    IN  IF r = st.count THEN s3 ELSE notify(s3)

\* ConcretePublisher.business_logic, r the value randrange returns
business_logic(st, r) ==
    LET s1 == print(st, "\nPublisher: Checking Inventory for new products!")
        s2 == [s1 EXCEPT !.count = r]
        s3 == print(s2, "Publisher: My new products count has just changed to: "
                        \o ToString(s2.count))
    IN  notify(s3)

\* ------------------------------------------------------------ the state machine

\* ConcretePublisher.__init__, and nothing printed or called yet
Construct ==
    /\ _subscribers = <<>>
    /\ _new_products = 0
    /\ stdout = <<>>
    /\ history = <<>>

\* The frame a call starts with.
Enter == Frame(_subscribers, _new_products, stdout)

\* The state after a call that ended with frame st; the call is recorded with the
\* publisher's fields before and after it.
Return(op, sub, draw, st) ==
    /\ _subscribers' = st.subs
    /\ _new_products' = st.count
    /\ stdout' = st.out
    /\ history' = Append(history,
          [op |-> op, sub |-> sub, draw |-> draw, exc |-> st.exc,
           before |-> _subscribers, count_before |-> _new_products,
           subs |-> st.subs, count |-> st.count,
           updates |-> st.updates, passes |-> st.passes,
           printed |-> SubSeq(st.out, Len(stdout) + 1, Len(st.out))])

Call_add_subscriber(s) == Return("add_subscriber", s, -1, add_subscriber(Enter, s))

Call_remove_subscriber(s) == Return("remove_subscriber", s, -1, remove_subscriber(Enter, s))

Call_notify == Return("notify", "", -1, notify(Enter))

Call_business_logic(r) == Return("business_logic", "", r, business_logic(Enter, r))

\* The last call ended with an exception.
Raised(h) == Len(h) > 0 /\ h[Len(h)].exc # ""

Draws(h) == Cardinality({i \in 1..Len(h) : h[i].op = "business_logic"})

\* ---- a client that makes any calls on one publisher
\* A call is made either as a plain statement at the top level of a script, as
\* the ones of __main__ are, or inside a try statement that handles the
\* exception. An exception nothing handles ends the process.

After(handled, next) == IF Raised(history') /\ ~handled THEN "crashed" ELSE next

ClientAdd ==
    /\ pc = "client" /\ Len(history) < MaxOps
    /\ \E s \in Subscribers : Call_add_subscriber(s)
    /\ pc' = After(FALSE, "client")

ClientRemove ==
    /\ pc = "client" /\ Len(history) < MaxOps
    /\ \E s \in Subscribers : Call_remove_subscriber(s)
    /\ \E handled \in BOOLEAN : pc' = After(handled, "client")

ClientNotify ==
    /\ pc = "client" /\ Len(history) < MaxOps
    /\ Call_notify
    /\ pc' = After(FALSE, "client")

ClientBusinessLogic ==
    /\ pc = "client" /\ Len(history) < MaxOps /\ Draws(history) < MaxDraws
    /\ \E r \in randrange : Call_business_logic(r)
    /\ pc' = After(FALSE, "client")

Init == Construct /\ pc = "client"

Next == ClientAdd \/ ClientRemove \/ ClientNotify \/ ClientBusinessLogic

Spec == Init /\ [][Next]_vars

\* ---- a client that also registers subscribers of its own classes

OpenAdd ==
    /\ pc = "client" /\ Len(history) < MaxOps
    /\ \E s \in OtherSubscribers : Call_add_subscriber(s)
    /\ pc' = After(FALSE, "client")

OpenRemove ==
    /\ pc = "client" /\ Len(history) < MaxOps
    /\ \E s \in OtherSubscribers : Call_remove_subscriber(s)
    /\ \E handled \in BOOLEAN : pc' = After(handled, "client")

OpenNext ==
    \/ ClientAdd \/ ClientRemove \/ ClientNotify \/ ClientBusinessLogic
    \/ OpenAdd \/ OpenRemove

OpenSpec == Init /\ [][OpenNext]_vars

\* ---- the script under  if __name__ == "__main__"
\* Line 122 constructs the publisher, lines 124-125 the two subscribers.

Main127 == pc = "L127" /\ Call_add_subscriber("sub_a") /\ pc' = After(FALSE, "L128")

Main128 == pc = "L128" /\ Call_add_subscriber("sub_b") /\ pc' = After(FALSE, "L130")

Main130 ==
    /\ pc = "L130"
    /\ \E r \in randrange : Call_business_logic(r)
    /\ pc' = After(FALSE, "L131")

Main131 ==
    /\ pc = "L131"
    /\ \E r \in randrange : Call_business_logic(r)
    /\ pc' = After(FALSE, "L132")

Main132 ==
    /\ pc = "L132"
    /\ \E r \in randrange : Call_business_logic(r)
    /\ pc' = After(FALSE, "L134")

Main134 == pc = "L134" /\ Call_remove_subscriber("sub_a") /\ pc' = After(FALSE, "L136")

Main136 ==
    /\ pc = "L136"
    /\ \E r \in randrange : Call_business_logic(r)
    /\ pc' = After(FALSE, "L137")

Main137 ==
    /\ pc = "L137"
    /\ \E r \in randrange : Call_business_logic(r)
    /\ pc' = After(FALSE, "done")

MainInit == Construct /\ pc = "L127"

MainNext ==
    \/ Main127 \/ Main128 \/ Main130 \/ Main131 \/ Main132
    \/ Main134 \/ Main136 \/ Main137

\* The interpreter runs the statements of the script one after the other.
MainSpec == MainInit /\ [][MainNext]_vars /\ WF_vars(MainNext)

\* ---------------------------------------------------------------- properties
\* What the properties read from the record of a call.

\* The receivers of a call's update calls, in the order of the calls.
Receivers(h) == [k \in 1..Len(h.updates) |-> h.updates[k].sub]

\* The receivers whose update acted, in the order of the calls.
Actors(h) ==
    LET F[k \in 0..Len(h.updates)] ==
            IF k = 0 THEN <<>>
            ELSE IF h.updates[k].fired THEN Append(F[k - 1], h.updates[k].sub)
            ELSE F[k - 1]
    IN  F[Len(h.updates)]

\* How many entries of the sequence l equal x.
Occurrences(l, x) == Cardinality({k \in 1..Len(l) : l[k] = x})

Calls == 1..Len(history)

\* The call made a notify pass (notify itself, or business_logic).
IsPass(h) == h.op \in {"notify", "business_logic"}

ActionLine == "SubscriberA: Action Taken"

\* C1: a notify() that follows only add_subscriber calls invokes update on the
\* arguments of those calls, one update per call (a subscriber added k times gets
\* k updates), in the order of the add_subscriber calls.
C1_NotifyFollowsRegistrationOrder ==
    \A i \in Calls :
        (/\ history[i].op = "notify"
         /\ \A j \in 1..(i - 1) : history[j].op = "add_subscriber")
        => /\ Receivers(history[i]) = [j \in 1..(i - 1) |-> history[j].sub]
           /\ \A s \in Subscribers :
                Occurrences(Receivers(history[i]), s)
                    = Cardinality({j \in 1..(i - 1) : history[j].sub = s})

\* A notify() after three add_subscriber calls, one subscriber added twice.
C1_Witness ==
    \E i \in Calls :
        /\ i = 4 /\ history[i].op = "notify"
        /\ \A j \in 1..3 : history[j].op = "add_subscriber"
        /\ history[1].sub = "sub_a" /\ history[2].sub = "sub_b" /\ history[3].sub = "sub_a"
        /\ Len(history[i].updates) = 3

\* C2: after a remove_subscriber(s) that succeeded on a list holding s exactly
\* once, no later call invokes update on s, until an add_subscriber(s).
C2_RemovedNotNotified ==
    \A i \in Calls : \A j \in Calls :
        (/\ i < j
         /\ history[i].op = "remove_subscriber" /\ history[i].exc = ""
         /\ Occurrences(history[i].before, history[i].sub) = 1
         /\ \A k \in (i + 1)..j :
                ~(history[k].op = "add_subscriber" /\ history[k].sub = history[i].sub))
        => Occurrences(Receivers(history[j]), history[i].sub) = 0

\* sub_a, registered once beside sub_b, is removed, and two passes follow: they
\* reach sub_b only.
C2_Witness ==
    \E i \in Calls :
        /\ history[i].op = "remove_subscriber" /\ history[i].exc = ""
        /\ history[i].before = <<"sub_a", "sub_b">> /\ history[i].sub = "sub_a"
        /\ i + 2 \in Calls
        /\ history[i + 1].op = "notify" /\ history[i + 2].op = "business_logic"
        /\ Receivers(history[i + 1]) = <<"sub_b">>
        /\ Receivers(history[i + 2]) = <<"sub_b">>

\* C3: every business_logic call leaves the count at the value drawn, a value
\* of 0..9, and makes exactly one notify pass after the assignment: the pass
\* calls update once per entry of the list and every update reads the new
\* value. This is so also when the value drawn is the old value.
C3_BusinessLogicNotifiesOnce ==
    \A i \in Calls :
        history[i].op = "business_logic"
        => /\ history[i].count \in 0..9
           /\ history[i].count = history[i].draw
           /\ i = Len(history) => _new_products = history[i].draw
           /\ history[i].passes = 1
           /\ Len(history[i].updates) = Len(history[i].before)
           /\ \A k \in 1..Len(history[i].updates) :
                history[i].updates[k].seen = history[i].draw

\* A business_logic draws the value the count already has, with two
\* subscribers registered, and both are updated.
C3_Witness ==
    \E i \in Calls :
        /\ history[i].op = "business_logic"
        /\ history[i].draw = history[i].count_before
        /\ Len(history[i].updates) = 2 /\ history[i].passes = 1

\* C4: a remove_subscriber(s) ends with ValueError exactly when s is not in
\* the list; it then leaves the list and the count as they were, and a pass
\* made next calls update on the entries the list had before it, in their order.
C4_RemoveAbsentLeavesState ==
    \A i \in Calls :
        history[i].op = "remove_subscriber"
        => /\ (history[i].exc = "ValueError")
                <=> (Occurrences(history[i].before, history[i].sub) = 0)
           /\ history[i].exc \in {"", "ValueError"}
           /\ history[i].exc = "ValueError"
                => /\ history[i].subs = history[i].before
                   /\ history[i].count = history[i].count_before
                   /\ \A j \in Calls :
                        (/\ j > i /\ IsPass(history[j])
                         /\ \A k \in (i + 1)..(j - 1) : IsPass(history[k]))
                        => /\ Receivers(history[j]) = history[i].before
                           /\ Receivers(history[j]) = history[j].before

\* sub_a is removed a second time, with sub_b registered; the caller handles the
\* exception and a pass follows.
C4_Witness ==
    \E i \in Calls :
        /\ i > 1
        /\ history[i - 1].op = "remove_subscriber" /\ history[i - 1].exc = ""
        /\ history[i - 1].sub = "sub_a"
        /\ history[i].op = "remove_subscriber" /\ history[i].exc = "ValueError"
        /\ history[i].sub = "sub_a" /\ history[i].before = <<"sub_b">>
        /\ i + 1 \in Calls /\ IsPass(history[i + 1])
        /\ Receivers(history[i + 1]) = <<"sub_b">>

\* C5: after a remove_subscriber that ended with 'not found' the program has
\* not stopped (it goes on to its next call).
C5_RemoveAbsentNonFatal == Raised(history) => pc # "crashed"

\* C6: an update of SubscriberA acts exactly when the count it reads is greater
\* than 0, an update of SubscriberB exactly when it is greater than 2; acting is
\* printing one action line, so a call prints as many action lines as it has
\* updates that acted.
C6_ActionIffAboveThreshold ==
    \A i \in Calls :
        /\ \A k \in 1..Len(history[i].updates) :
            LET u == history[i].updates[k]
            IN  /\ ClassOf(u.sub) = "SubscriberA" => (u.fired <=> u.seen > 0)
                /\ ClassOf(u.sub) = "SubscriberB" => (u.fired <=> u.seen > 2)
        /\ Occurrences(history[i].printed, ActionLine) = Len(Actors(history[i]))

\* Passes over sub_a and sub_b at count 0 (neither acts) and at count 2 (sub_a
\* acts, sub_b does not), the second one made twice.
C6_Witness ==
    /\ Len(history) = 5
    /\ history[3].op = "notify" /\ history[3].count = 0
    /\ Receivers(history[3]) = <<"sub_a", "sub_b">> /\ Actors(history[3]) = <<>>
    /\ history[4].draw = 2 /\ Actors(history[4]) = <<"sub_a">>
    /\ history[5].op = "notify" /\ Actors(history[5]) = <<"sub_a">>

\* C7: in a pass made while sub_a and sub_b are both registered, if an update
\* of sub_b acts then an update of sub_a acts.
C7_BActsOnlyIfAActs ==
    \A i \in Calls :
        (/\ IsPass(history[i])
         /\ Occurrences(history[i].before, "sub_a") > 0
         /\ Occurrences(history[i].before, "sub_b") > 0
         /\ Occurrences(Actors(history[i]), "sub_b") > 0)
        => Occurrences(Actors(history[i]), "sub_a") > 0

\* A pass at count 3, sub_b registered before sub_a: both act.
C7_Witness ==
    \E i \in Calls :
        /\ history[i].op = "business_logic" /\ history[i].draw = 3
        /\ history[i].before = <<"sub_b", "sub_a">>
        /\ Actors(history[i]) = <<"sub_b", "sub_a">>

IsAdd(h, s) == h.op = "add_subscriber" /\ h.sub = s

IsDraw(h) == h.op = "business_logic"

\* The script at its end: the eight calls it made and what their passes reached.
DriverShape ==
    /\ Len(history) = 8
    /\ IsAdd(history[1], "sub_a") /\ IsAdd(history[2], "sub_b")
    /\ \A i \in {3, 4, 5, 7, 8} : IsDraw(history[i])
    /\ \A i \in {3, 4, 5} : Receivers(history[i]) = <<"sub_a", "sub_b">>
    /\ history[6].op = "remove_subscriber"
    /\ Occurrences(history[6].before, history[6].sub) = 1
    /\ \A i \in {7, 8} :
        /\ Len(Receivers(history[i])) = 1
        /\ Receivers(history[i]) = _subscribers
        /\ Occurrences(Receivers(history[i]), history[6].sub) = 0
    /\ Len(_subscribers) = 1

\* C9: whatever the draws, the script ends, no call of it ends with an
\* exception, and at its end it has made its eight calls: sub_a and sub_b
\* registered, three business_logic calls that update sub_a and then sub_b, a
\* removal of a registered subscriber, two business_logic calls that update the
\* subscriber left; one subscriber is registered then.
C9_DriverRunsToEnd ==
    /\ [](pc # "crashed" /\ \A i \in Calls : history[i].exc = "")
    /\ [](pc = "done" => DriverShape)
    /\ <>(pc = "done")

\* The end of the script after the draws 0, 9, 3, 0, 9.
C9_Witness ==
    /\ pc = "done" /\ Len(history) = 8
    /\ history[3].draw = 0 /\ history[4].draw = 9 /\ history[5].draw = 3
    /\ history[7].draw = 0 /\ history[8].draw = 9
    /\ _subscribers = <<"sub_b">>

\* C10: every add_subscriber(s) returns, with the list it found extended by s
\* at its end (one entry longer, also when s was in it) and the count as it was.
C10_AddAppends ==
    \A i \in Calls :
        history[i].op = "add_subscriber"
        => /\ history[i].exc = ""
           /\ history[i].subs = Append(history[i].before, history[i].sub)
           /\ Len(history[i].subs) = Len(history[i].before) + 1
           /\ SubSeq(history[i].subs, 1, Len(history[i].before)) = history[i].before
           /\ history[i].count = history[i].count_before
           /\ i = Len(history)
                => _subscribers = history[i].subs /\ _new_products = history[i].count_before

\* sub_a is added to a list that holds it, the count being 4.
C10_Witness ==
    \E i \in Calls :
        /\ history[i].op = "add_subscriber" /\ history[i].sub = "sub_a"
        /\ history[i].before = <<"sub_b", "sub_a">>
        /\ history[i].subs = <<"sub_b", "sub_a", "sub_a">>
        /\ history[i].count = 4

\* C11: a notify pass calls update on the entries the list had when the pass
\* began, once each and in their order, whatever the subscribers' update does.
C11_PassUsesListAtStart ==
    \A i \in Calls :
        IsPass(history[i]) => Receivers(history[i]) = history[i].before

\* The sequence l without its entry at position k.
Without(l, k) == [j \in 1..(Len(l) - 1) |-> IF j < k THEN l[j] ELSE l[j + 1]]

\* C12: a remove_subscriber(s) that returns has removed one entry, the first
\* one equal to s, the other entries keeping their order; of k >= 2 occurrences
\* of s, k - 1 are left, and a pass made next calls update on s k - 1 times.
C12_RemoveFirstOccurrence ==
    \A i \in Calls :
        (history[i].op = "remove_subscriber" /\ history[i].exc = "")
        => LET h == history[i]
               firsts == {k \in 1..Len(h.before) :
                            h.before[k] = h.sub /\ \A m \in 1..(k - 1) : h.before[m] # h.sub}
           IN  /\ Cardinality(firsts) = 1
               /\ \A k \in firsts : h.subs = Without(h.before, k)
               /\ Occurrences(h.subs, h.sub) = Occurrences(h.before, h.sub) - 1
               /\ (i + 1 \in Calls /\ IsPass(history[i + 1]))
                    => Occurrences(Receivers(history[i + 1]), h.sub)
                         = Occurrences(h.before, h.sub) - 1

\* sub_a is removed from the list sub_a, sub_b, sub_a; the next pass updates
\* sub_b, sub_a.
C12_Witness ==
    /\ Len(history) = 5
    /\ history[4].op = "remove_subscriber" /\ history[4].sub = "sub_a"
    /\ history[4].before = <<"sub_a", "sub_b", "sub_a">>
    /\ history[4].subs = <<"sub_b", "sub_a">>
    /\ history[5].op = "notify"
    /\ Receivers(history[5]) = <<"sub_b", "sub_a">>

\* C13: the count is changed by business_logic only and the list by
\* add_subscriber and remove_subscriber only: a notify call, with the updates of
\* SubscriberA and SubscriberB it makes, leaves both as they were,
\* add_subscriber and remove_subscriber leave the count, business_logic (with
\* its pass) leaves the list.
C13_Frame ==
    /\ \A i \in Calls :
        LET h == history[i]
        IN  /\ h.op = "notify" => h.subs = h.before /\ h.count = h.count_before
            /\ h.op \in {"add_subscriber", "remove_subscriber"}
                 => h.count = h.count_before
            /\ h.op = "business_logic" => h.subs = h.before
            /\ h.count # h.count_before => h.op = "business_logic"
            /\ h.subs # h.before => h.op \in {"add_subscriber", "remove_subscriber"}
            /\ h.before = (IF i = 1 THEN <<>> ELSE history[i - 1].subs)
            /\ h.count_before = (IF i = 1 THEN 0 ELSE history[i - 1].count)
    /\ Len(history) > 0
         => /\ _subscribers = history[Len(history)].subs
            /\ _new_products = history[Len(history)].count

\* sub_a and sub_b are registered at count 5; a notify in which both act, and a
\* removal, leave the count at 5.
C13_Witness ==
    /\ Len(history) = 5
    /\ history[3].op = "business_logic" /\ history[3].draw = 5
    /\ history[3].before = <<"sub_a", "sub_b">>
    /\ history[4].op = "notify" /\ Actors(history[4]) = <<"sub_a", "sub_b">>
    /\ history[5].op = "remove_subscriber" /\ history[5].exc = ""
    /\ _new_products = 5 /\ Len(_subscribers) = 1

\* The lines of the program, by category. business_logic prints one more line,
\* CheckingLine, before it draws; its text starts with a line break.
AddingLine == "Publisher: Adding subscriber !"

RemovingLine == "Publisher: Removing subscriber !"

CheckingLine == "\nPublisher: Checking Inventory for new products!"

ChangedLine(n) == "Publisher: My new products count has just changed to: " \o ToString(n)

ChangedLines == {ChangedLine(n) : n \in 0..9}

\* n action lines.
ActionLines(n) == [k \in 1..n |-> ActionLine]

\* The lines of the first n calls, in the order of the calls.
RECURSIVE PrintedUpTo(_)
PrintedUpTo(n) == IF n = 0 THEN <<>> ELSE PrintedUpTo(n - 1) \o history[n].printed

\* The entries of l whose subscriber acts at count c, in their order.
ActingAt(l, c) ==
    SelectSeq(l, LAMBDA s : IF s = "sub_a" THEN c > 0 ELSE c > 2)

\* C14: add_subscriber prints one registration line and remove_subscriber one
\* removal line; business_logic prints one announcement of the new count and
\* then one action line per subscriber that acts, these in the order of the
\* list; notify prints the action lines alone; and stdout is the lines of the
\* calls in the order of the calls.
C14_TraceLines ==
    /\ \A i \in Calls :
        LET h == history[i]
        IN  /\ h.op = "add_subscriber" => h.printed = <<AddingLine>>
            /\ h.op = "remove_subscriber" => h.printed = <<RemovingLine>>
            /\ h.op = "business_logic"
                 => /\ h.printed = <<CheckingLine, ChangedLine(h.draw)>>
                                    \o ActionLines(Len(Actors(h)))
                    /\ Cardinality({k \in 1..Len(h.printed) : h.printed[k] \in ChangedLines}) = 1
                    /\ Actors(h) = ActingAt(h.before, h.draw)
            /\ h.op = "notify"
                 => /\ h.printed = ActionLines(Len(Actors(h)))
                    /\ Actors(h) = ActingAt(h.before, h.count_before)
    /\ stdout = PrintedUpTo(Len(history))

\* Two registrations, a business_logic at 5 with two action lines, a removal, a
\* notify with the one action line of sub_b.
C14_Witness ==
    /\ Len(history) = 5 /\ Len(stdout) = 8
    /\ history[3].draw = 5 /\ Actors(history[3]) = <<"sub_a", "sub_b">>
    /\ history[4].op = "remove_subscriber" /\ history[4].sub = "sub_a"
    /\ history[5].op = "notify" /\ Actors(history[5]) = <<"sub_b">>
    /\ stdout[4] = ChangedLine(5) /\ stdout[7] = RemovingLine /\ stdout[8] = ActionLine

\* C15: in every state the count is an integer of 0..9; right after
\* construction it is 0 and the list is empty.
C15_CountInRange ==
    /\ _new_products \in 0..9
    /\ \A i \in Calls : history[i].count \in 0..9
    /\ history = <<>> => _new_products = 0 /\ _subscribers = <<>>

\* The count is 9 after a business_logic followed by a removal and a notify.
C15_Witness ==
    /\ _new_products = 9 /\ Len(history) = 5
    /\ history[3].op = "business_logic"
    /\ history[4].op = "remove_subscriber" /\ history[5].op = "notify"

\* C16: remove_subscriber prints its removal line also when it ends with
\* ValueError, the list then being as it was: a removal line is printed by a
\* call that removed nothing.
C16_RemovalLineBeforeRemoval ==
    \A i \in Calls :
        history[i].op = "remove_subscriber"
        => /\ Len(history[i].printed) = 1
           /\ history[i].printed[1] = RemovingLine
           /\ history[i].exc = "ValueError"
                => /\ history[i].subs = history[i].before
                   /\ i = Len(history)
                        => stdout[Len(stdout)] = RemovingLine /\ _subscribers = history[i].before

\* remove_subscriber(sub_a) fails on the list sub_b, sub_b and has printed its line.
C16_Witness ==
    \E i \in Calls :
        /\ i = Len(history)
        /\ history[i].op = "remove_subscriber" /\ history[i].exc = "ValueError"
        /\ history[i].sub = "sub_a" /\ history[i].before = <<"sub_b", "sub_b">>
        /\ _subscribers = <<"sub_b", "sub_b">>
        /\ stdout[Len(stdout)] = RemovingLine

\* The add_subscriber calls, and the remove_subscriber calls that returned,
\* among the first n calls.
AddsUpTo(n) == Cardinality({j \in 1..n : history[j].op = "add_subscriber"})

RemovalsUpTo(n) ==
    Cardinality({j \in 1..n : history[j].op = "remove_subscriber" /\ history[j].exc = ""})

\* C17: a pass makes as many update calls as the list has entries, which is
\* the number of add_subscriber calls less the number of remove_subscriber calls
\* that returned; on an empty list business_logic assigns the value drawn,
\* prints its two lines, makes its pass with no update call and returns.
C17_UpdatesCountListLength ==
    /\ \A i \in Calls :
        LET h == history[i]
        IN  /\ IsPass(h)
                 => /\ Len(h.updates) = Len(h.before)
                    /\ Len(h.before) = AddsUpTo(i - 1) - RemovalsUpTo(i - 1)
            /\ (h.op = "business_logic" /\ h.before = <<>>)
                 => /\ h.count = h.draw /\ h.exc = "" /\ h.passes = 1
                    /\ h.updates = <<>>
                    /\ h.printed = <<CheckingLine, ChangedLine(h.draw)>>
    /\ Len(_subscribers) = AddsUpTo(Len(history)) - RemovalsUpTo(Len(history))

\* business_logic after both registered subscribers were removed: the count is
\* set, no update is called.
C17_Witness ==
    /\ Len(history) = 5
    /\ history[1].op = "add_subscriber" /\ history[2].op = "add_subscriber"
    /\ history[3].op = "remove_subscriber" /\ history[3].exc = ""
    /\ history[4].op = "remove_subscriber" /\ history[4].exc = ""
    /\ history[5].op = "business_logic" /\ history[5].before = <<>>
    /\ history[5].draw = 6 /\ history[5].updates = <<>> /\ _new_products = 6

====
